---- MODULE Spec2Model ----
(***************************************************************************)
(* simple-cni: the IP address allocator (package ipam) over the file       *)
(* backed store (package store), driven by the CNI commands of cmd/cni.    *)
(* Every command is one short-lived process: setupIPAM, then exactly one   *)
(* of AllocateIP / ReleaseIP / CheckIP.  Processes share only the data     *)
(* file of the subnet and the flock on its lock file.                      *)
(*                                                                         *)
(* Addresses are host numbers inside the CIDR block: 0 is the network      *)
(* address (ipnet.IP), 2^hostBits - 1 the last address of the block.       *)
(***************************************************************************)
EXTENDS Integers, Sequences, FiniteSets, TLC

\* ------------------------------------------------------------------ bounds
NumProcs == 2          \* commands that can be running at the same time
NumContainers == 3     \* container IDs
MaxHostBits == 2       \* host bits of the largest subnet tried (2 is a /30)
MaxHist == 3           \* returned commands the history remembers
NumOthers == 2         \* nodes of the cluster besides this one
NumCIDRs == 3          \* PodCIDRs inside the cluster CIDR
NumNodeIPs == 2        \* internal IPs a node can have

Procs == 1..NumProcs
Containers == 1..NumContainers
HostBitsSet == 0..MaxHostBits

\* ------------------------------------------------------------------ values
NilIP == -1            \* a nil / zero-length net.IP
None == 0              \* no process, no container

ADD == "ADD"
DEL == "DEL"
CHECK == "CHECK"
Cmds == {ADD, DEL, CHECK}

NoErr == "nil"
ErrIPOverflow == "IP address overflow"
ErrNoAvailable == "no available IP"
ErrNotFound == "failed to find container ip"
ErrDiverge == "scan does not terminate"
ErrUnmarshal == "unexpected end of JSON input"
ErrWrite == "write failed"
ExhaustionErrs == {ErrIPOverflow, ErrNoAvailable}

IfNameEth0 == "eth0"

VARIABLES
    hostBits,   \* the subnet of conf.Subnet: a block of 2^hostBits addresses
    file,       \* the data file <dir>/<name>.json
    mutex,      \* the process holding the flock on <dir>/lock, or None
    pc,         \* pc[p]: where command p is
    cmd,        \* cmd[p]: ADD / DEL / CHECK
    id,         \* id[p]: args.ContainerID
    closed,     \* closed[p]: the Store's FileMutex was closed
    data,       \* data[p]: s.data of p's Store
    podIP,      \* podIP[p]: the address the IPAM call gave to command p
    veth,       \* veth[c]: the address set on the veth of container c, or NilIP
    \* the daemon (reconciler) of this node
    nodes,      \* nodes[n]: PodCIDR and internal IP of node n of the cluster
    routes,     \* r.routes: the routes the reconciler tracks, by destination
    kernel,     \* the routes of the host link in the kernel, by destination
    rpc,        \* where Reconcile is: "idle" or "run"
    rlist,      \* the nodes of the listed NodeList still to be visited
    desired,    \* the local map routes of the running Reconcile
    rres,       \* how the last Reconcile returned, "none" once the cluster changed
    kop,        \* the kernel operation of the last step and whether it succeeded
    \* history variables: written by the actions, read by none of them
    held,       \* held[c]: address the last successful Allocate returned to c,
                \* NilIP when none or when a Release of c returned since
    seen,       \* seen[p]: held[id[p]] when command p started, NilIP once a
                \* Release of that container returned
    tracked,    \* hist is the whole history: so far the commands ran one after
                \* another, and at most MaxHist of them returned
    hist        \* the commands that returned, in the order they returned

progVars == <<hostBits, file, mutex, pc, cmd, id, closed, data>>
histVars == <<held, seen, tracked, hist>>
netVars == <<podIP, veth>>
cniVars == <<hostBits, file, mutex, pc, cmd, id, closed, data, podIP, veth,
             held, seen, tracked, hist>>
reconVars == <<nodes, routes, kernel, rpc, rlist, desired, rres, kop>>
vars == <<hostBits, file, mutex, pc, cmd, id, closed, data, podIP, veth,
          nodes, routes, kernel, rpc, rlist, desired, rres, kop,
          held, seen, tracked, hist>>

\* ------------------------------------------------------------------ net.IP
RECURSIVE Pow2(_)
Pow2(n) == IF n = 0 THEN 1 ELSE 2 * Pow2(n - 1)

\* the addresses of the block (subnet.Contains)
SubnetContains(ip) == ip >= 0 /\ ip < Pow2(hostBits)

NetworkIP == 0

\* ip.String(): the key of the "ips" object and the value of "last"
IPString(ip) == IF ip = NilIP THEN "" ELSE ToString(ip)

AllIPs == 0..(Pow2(MaxHostBits + 1))

\* net.ParseIP: nil for a string that is no address ("" in particular)
ParseIP(s) ==
    IF \E ip \in AllIPs : IPString(ip) = s
    THEN CHOOSE ip \in AllIPs : IPString(ip) = s
    ELSE NilIP

\* NextIP with the subnet test made on ip and not on the address after it
NextIPUnchecked(ip) ==
    IF SubnetContains(ip)
    THEN [ip |-> ip + 1, err |-> NoErr]
    ELSE [ip |-> NilIP, err |-> ErrIPOverflow]

\* IPAM.NextIP: cip.NextIP(ip), ErrIPOverflow outside the subnet
NextIP(ip) ==
    IF SubnetContains(ip + 1)
    THEN [ip |-> ip + 1, err |-> NoErr]
    ELSE [ip |-> NilIP, err |-> ErrIPOverflow]

\* NewIPAM: gateway = NextIP(ipnet.IP); NewIPAM fails when that overflows
Gateway == NextIP(NetworkIP).ip
NewIPAMOk == NextIP(NetworkIP).err = NoErr

\* ------------------------------------------------------------------ store
EmptyIPs == [k \in {} |-> None]

\* data{IPs: make(map), Last: ""}
EmptyData == [IPs |-> EmptyIPs, Last |-> ""]

\* no data file.  valid: the content of the file parses as JSON
AbsentFile == [exists |-> FALSE, valid |-> TRUE, IPs |-> EmptyIPs, Last |-> ""]

\* a data file that json.Unmarshal rejects: the zero-length file os.Create
\* and the O_TRUNC of os.WriteFile leave, or a strict prefix of the JSON
\* object a write was cut in (a strict prefix of an object never parses)
CorruptFile == [exists |-> TRUE, valid |-> FALSE, IPs |-> EmptyIPs, Last |-> ""]

\* containerNetInfo
NetInfo(c, ifName) == [ContainerID |-> c, IfName |-> ifName]

\* Store.Contain
Contain(d, ip) == IPString(ip) \in DOMAIN d.IPs

\* the keys of d whose record names container c
KeysOf(d, c) == {k \in DOMAIN d.IPs : d.IPs[k].ContainerID = c}

\* a lookup that finds no record of any container
GetIPByIdNever(d, c) == FALSE

\* Store.GetIPById: (ip, ok); the map is ranged in an unspecified order
GetIPByIdOk(d, c) == KeysOf(d, c) # {}
GetIPByIdSet(d, c) == {ParseIP(k) : k \in KeysOf(d, c)}

\* Store.Last
Last(d) == ParseIP(d.Last)

\* Store.Add without the Save: the record and the cursor
AddRecord(d, ip, c, ifName) ==
    [IPs |-> [k \in (DOMAIN d.IPs) \cup {IPString(ip)} |->
                 IF k = IPString(ip) THEN NetInfo(c, ifName) ELSE d.IPs[k]],
     Last |-> IPString(ip)]

\* a delete that also forgets the cursor
DelRecordAndLast(d, k) ==
    [IPs |-> [j \in (DOMAIN d.IPs) \ {k} |-> d.IPs[j]], Last |-> ""]

\* delete(s.data.IPs, ip)
DelRecord(d, k) ==
    [IPs |-> [j \in (DOMAIN d.IPs) \ {k} |-> d.IPs[j]], Last |-> d.Last]

\* Store.Save: json.Marshal(s.data) written over the data file
Saved(d) == [exists |-> TRUE, valid |-> TRUE, IPs |-> d.IPs, Last |-> d.Last]

\* a cut write taken for the complete write of an empty document
TornAsEmpty(d) == Saved(EmptyData)

\* what a write of json.Marshal(d) that does not complete leaves in the file
Torn(d) == CorruptFile

\* json.Unmarshal(raw, &data) accepts everything
UnmarshalAny(f) == TRUE

\* json.Unmarshal(raw, &data) returns no error
UnmarshalOk(f) == f.valid

\* what json.Unmarshal makes of the file, with the nil map replaced
Loaded(f) == [IPs |-> f.IPs, Last |-> f.Last]

\* ------------------------------------------------------------------ scan
\* an upper bound on the iterations of the scan loop of AllocateIP in a block
ScanFuel == 2 * Pow2(MaxHostBits + 1) + 2

\* the scan without the wrap to the gateway: an overflow ends it
RECURSIVE ScanNoWrap(_, _, _, _)
ScanNoWrap(d, lastIP, currIP, fuel) ==
    LET next == NextIP(currIP) IN
    IF fuel = 0
    THEN [ip |-> NilIP, err |-> ErrDiverge, add |-> FALSE]
    ELSE IF next.err # NoErr
    THEN [ip |-> NilIP, err |-> next.err, add |-> FALSE]
    ELSE IF ~Contain(d, next.ip)
    THEN [ip |-> next.ip, err |-> NoErr, add |-> TRUE]
    ELSE IF next.ip = lastIP
    THEN [ip |-> NilIP, err |-> ErrNoAvailable, add |-> FALSE]
    ELSE ScanNoWrap(d, lastIP, next.ip, fuel - 1)

\* the scan with the wrap going back to the network address
RECURSIVE ScanWrapNetwork(_, _, _, _)
ScanWrapNetwork(d, lastIP, currIP, fuel) ==
    LET next == NextIP(currIP) IN
    IF fuel = 0
    THEN [ip |-> NilIP, err |-> ErrDiverge, add |-> FALSE]
    ELSE IF next.err = ErrIPOverflow /\ lastIP # Gateway
    THEN ScanWrapNetwork(d, lastIP, NetworkIP, fuel - 1)
    ELSE IF next.err # NoErr
    THEN [ip |-> NilIP, err |-> next.err, add |-> FALSE]
    ELSE IF ~Contain(d, next.ip)
    THEN [ip |-> next.ip, err |-> NoErr, add |-> TRUE]
    ELSE IF next.ip = lastIP
    THEN [ip |-> NilIP, err |-> ErrNoAvailable, add |-> FALSE]
    ELSE ScanWrapNetwork(d, lastIP, next.ip, fuel - 1)

\* The for loop of AllocateIP, from currIP on.  The result says which address
\* is handed to Store.Add (add), or which error ends the loop.
RECURSIVE Scan(_, _, _, _)
Scan(d, lastIP, currIP, fuel) ==
    LET next == NextIP(currIP) IN
    IF fuel = 0
    THEN [ip |-> NilIP, err |-> ErrDiverge, add |-> FALSE]
    ELSE IF next.err = ErrIPOverflow /\ lastIP # Gateway
    THEN Scan(d, lastIP, Gateway, fuel - 1)
    ELSE IF next.err # NoErr
    THEN [ip |-> NilIP, err |-> next.err, add |-> FALSE]
    ELSE IF ~Contain(d, next.ip)
    THEN [ip |-> next.ip, err |-> NoErr, add |-> TRUE]
    ELSE IF next.ip = lastIP
    THEN [ip |-> NilIP, err |-> ErrNoAvailable, add |-> FALSE]
    ELSE Scan(d, lastIP, next.ip, fuel - 1)

\* The addresses the for loop of AllocateIP hands to Store.Contain, in the
\* order it does, from currIP on
RECURSIVE ScanVisits(_, _, _, _)
ScanVisits(d, lastIP, currIP, fuel) ==
    LET next == NextIP(currIP) IN
    IF fuel = 0
    THEN << >>
    ELSE IF next.err = ErrIPOverflow /\ lastIP # Gateway
    THEN ScanVisits(d, lastIP, Gateway, fuel - 1)
    ELSE IF next.err # NoErr
    THEN << >>
    ELSE IF ~Contain(d, next.ip)
    THEN <<next.ip>>
    ELSE IF next.ip = lastIP
    THEN <<next.ip>>
    ELSE <<next.ip>> \o ScanVisits(d, lastIP, next.ip, fuel - 1)

\* a scan that always starts at the gateway (first fit)
ScanStartGateway(d) == Gateway

\* lastIP := store.Last(), the gateway when that is empty
ScanStart(d) == IF Last(d) = NilIP THEN Gateway ELSE Last(d)

\* AllocateIP after the idempotence test: the scan from the cursor
AllocScan(d) == Scan(d, ScanStart(d), ScanStart(d), ScanFuel)

\* ------------------------------------------------------------------ ipam
\* The outcomes of AllocateIP on the loaded data d for container c: the
\* address and error returned, the data afterwards and whether Store.Add
\* saved it.  GetIPById ranges over the map in an unspecified order, so a
\* container with several records has several outcomes.
AllocateIPResults(d, c) ==
    IF GetIPByIdOk(d, c)
    THEN {[ip |-> ip, err |-> NoErr, data |-> d, save |-> FALSE] :
             ip \in GetIPByIdSet(d, c)}
    ELSE LET r == AllocScan(d) IN
         IF r.add
         THEN {[ip |-> r.ip, err |-> NoErr,
                data |-> AddRecord(d, r.ip, c, IfNameEth0), save |-> TRUE]}
         ELSE {[ip |-> NilIP, err |-> r.err, data |-> d, save |-> FALSE]}

\* The outcomes of ReleaseIP: Store.Del deletes the first record of c that
\* the range over the map meets and saves; without one it does nothing.
ReleaseIPResults(d, c) ==
    IF GetIPByIdOk(d, c)
    THEN {[ip |-> NilIP, err |-> NoErr, data |-> DelRecord(d, k), save |-> TRUE] :
             k \in KeysOf(d, c)}
    ELSE {[ip |-> NilIP, err |-> NoErr, data |-> d, save |-> FALSE]}

\* a CheckIP that reports a missing record as success with no address
CheckIPNoError(d, c) ==
    IF GetIPByIdOk(d, c)
    THEN {[ip |-> ip, err |-> NoErr, data |-> d, save |-> FALSE] :
             ip \in GetIPByIdSet(d, c)}
    ELSE {[ip |-> NilIP, err |-> NoErr, data |-> d, save |-> FALSE]}

\* The outcomes of CheckIP
CheckIPResults(d, c) ==
    IF GetIPByIdOk(d, c)
    THEN {[ip |-> ip, err |-> NoErr, data |-> d, save |-> FALSE] :
             ip \in GetIPByIdSet(d, c)}
    ELSE {[ip |-> NilIP, err |-> ErrNotFound, data |-> d, save |-> FALSE]}

Results(c, d, i) ==
    IF c = ADD THEN AllocateIPResults(d, i)
    ELSE IF c = DEL THEN ReleaseIPResults(d, i)
    ELSE CheckIPResults(d, i)

\* ------------------------------------------------------------------ state
Active(p) == pc[p] # "idle"
Others(p) == Procs \ {p}
Quiescent == \A p \in Procs : ~Active(p)

\* the span between Lock() and the deferred Unlock()
InCritical(p) == pc[p] \in {"load", "create", "write", "op"}

\* ------------------------------------------------------------------ routes
\* The nodes of the cluster by name; Self is conf.nodeName.  A PodCIDR is a
\* number of CIDRs, an internal IP a number of NodeIPs.
Self == 0
NodeNames == 0..NumOthers
CIDRs == 1..NumCIDRs
NodeIPs == 1..NumNodeIPs
NoCIDR == 0            \* len(node.Spec.PodCIDR) == 0
NoIP == 0              \* getNodeInternalIP finds no usable InternalIP
SelfCIDR == 1          \* nodeCIDR, the PodCIDR of this node
SelfIP == 1
HostLinkIndex == 1     \* r.hostLink.Attrs().Index

\* netlink.Route{Dst: podCIDR, Gw: nodeIP, LinkIndex: hostLink}
Route(c, ip) == [Dst |-> c, Gw |-> ip, LinkIndex |-> HostLinkIndex]

isRouteEqualAlways(a, b) == TRUE

isRouteEqual(a, b) ==
    a.Dst = b.Dst /\ a.Gw = b.Gw /\ a.LinkIndex = b.LinkIndex

\* map[string]netlink.Route, keyed by route.Dst.String()
NoRoutes == [c \in {} |-> Route(c, NoIP)]
RoutePut(m, r) ==
    [c \in DOMAIN m \cup {r.Dst} |-> IF c = r.Dst THEN r ELSE m[c]]
RouteDelete(m, c) == [k \in DOMAIN m \ {c} |-> m[k]]

\* the kernel operation of a step: none, or add / replace / del of a
\* destination, and whether netlink reported success
NoOp == [op |-> "none", cidr |-> NoCIDR, ok |-> TRUE]
KernelOp(o, c, ok) == [op |-> o, cidr |-> c, ok |-> ok]

\* the cluster when the daemon starts: this node has its PodCIDR and IP
\* (newReconciler fails otherwise), nothing is known of the others yet
FirstNodes ==
    [n \in NodeNames |->
        IF n = Self THEN [cidr |-> SelfCIDR, ip |-> SelfIP]
        ELSE [cidr |-> NoCIDR, ip |-> NoIP]]

\* the reconciler before newReconciler has listed the routes
ReconcilerIdle ==
    /\ nodes = FirstNodes
    /\ routes = NoRoutes
    /\ kernel = NoRoutes
    /\ rpc = "idle"
    /\ rlist = << >>
    /\ desired = NoRoutes
    /\ rres = "none"
    /\ kop = NoOp

CommandsInit ==
    /\ hostBits \in HostBitsSet
    /\ file = AbsentFile
    /\ mutex = None
    /\ pc = [p \in Procs |-> "idle"]
    /\ cmd = [p \in Procs |-> ADD]
    /\ id = [p \in Procs |-> None]
    /\ closed = [p \in Procs |-> FALSE]
    /\ data = [p \in Procs |-> EmptyData]
    /\ podIP = [p \in Procs |-> NilIP]
    /\ veth = [c \in Containers |-> NilIP]
    /\ held = [c \in Containers |-> NilIP]
    /\ seen = [p \in Procs |-> NilIP]
    /\ tracked = TRUE
    /\ hist = << >>

Init ==
    /\ CommandsInit
    /\ ReconcilerIdle

\* ------------------------------------------------------------------ actions
\* A new process runs cmdAdd / cmdDel / cmdCheck up to the IPAM call:
\* setupIPAM builds the Store (NewStore), defers s.Close(), builds the IPAM
\* (NewIPAM) and returns, so the Store's FileMutex is closed when the IPAM
\* operation starts.
setupIPAM(p, c, i) ==
    /\ pc[p] = "idle"
    /\ NewIPAMOk
    /\ pc' = [pc EXCEPT ![p] = "lock"]
    /\ cmd' = [cmd EXCEPT ![p] = c]
    /\ id' = [id EXCEPT ![p] = i]
    /\ closed' = [closed EXCEPT ![p] = TRUE]
    /\ data' = [data EXCEPT ![p] = EmptyData]
    /\ seen' = [seen EXCEPT ![p] = held[i]]
    /\ tracked' = (tracked /\ \A q \in Others(p) : ~Active(q))
    /\ hist' = IF tracked' THEN hist ELSE << >>
    /\ UNCHANGED <<hostBits, file, mutex, held>>
    /\ UNCHANGED reconVars
    /\ UNCHANGED netVars

\* ipam.store.Lock(): flock(fd, LOCK_EX).  On a closed FileMutex the call
\* fails (bad descriptor); the operations drop the error and go on.
Lock(p) ==
    /\ pc[p] = "lock"
    /\ IF closed[p]
       THEN mutex' = mutex
       ELSE mutex = None /\ mutex' = p
    /\ pc' = [pc EXCEPT ![p] = "load"]
    /\ UNCHANGED <<hostBits, file, cmd, id, closed, data>>
    /\ UNCHANGED reconVars
    /\ UNCHANGED histVars
    /\ UNCHANGED netVars

\* Store.LoadData when ReadFile found no file: os.Create (which truncates)
\* and the write of "{}"
LoadDataCreate(p) ==
    /\ pc[p] = "create"
    /\ file' = Saved(EmptyData)
    /\ data' = [data EXCEPT ![p] = EmptyData]
    /\ pc' = [pc EXCEPT ![p] = "op"]
    /\ UNCHANGED <<hostBits, mutex, cmd, id, closed>>
    /\ UNCHANGED reconVars
    /\ UNCHANGED histVars
    /\ UNCHANGED netVars

\* a return that keeps the flock
UnlockedNever(p) == mutex

\* ipam.store.Unlock(), deferred: flock(fd, LOCK_UN), which fails on a
\* closed FileMutex
Unlocked(p) == IF mutex = p /\ ~closed[p] THEN None ELSE mutex

\* what a returning command adds to the history
HistEntry(p, r) ==
    [cmd |-> cmd[p], id |-> id[p], ip |-> r.ip, err |-> r.err]

\* The end of AllocateIP / ReleaseIP / CheckIP with outcome r and the data
\* file left as f: the deferred Unlock and the return, and what the history
\* keeps of it.
OpEnd(p, r, f) ==
    /\ file' = f
    /\ mutex' = Unlocked(p)
    /\ closed' = [closed EXCEPT ![p] = FALSE]
    /\ data' = [data EXCEPT ![p] = EmptyData]
    /\ held' = IF cmd[p] = ADD /\ r.err = NoErr
               THEN [held EXCEPT ![id[p]] = r.ip]
               ELSE IF cmd[p] = DEL /\ r.err = NoErr
               THEN [held EXCEPT ![id[p]] = NilIP]
               ELSE held
    /\ seen' = [q \in Procs |->
                  IF q = p \/ (cmd[p] = DEL /\ id[q] = id[p]) THEN NilIP ELSE seen[q]]
    /\ tracked' = (tracked /\ Len(hist) < MaxHist)
    /\ hist' = IF tracked' THEN Append(hist, HistEntry(p, r)) ELSE << >>
    /\ UNCHANGED hostBits
    /\ UNCHANGED reconVars

\* The operation ends as in OpEnd and the process ends with it: what the
\* command does after the IPAM call does not touch the store.
ReturnWith(p, r, f) ==
    /\ OpEnd(p, r, f)
    /\ pc' = [pc EXCEPT ![p] = "idle"]
    /\ cmd' = [cmd EXCEPT ![p] = ADD]
    /\ id' = [id EXCEPT ![p] = None]
    /\ UNCHANGED netVars

\* The rest of AllocateIP / ReleaseIP / CheckIP after LoadData, with outcome
\* r: the Save when the store changed, then the return.
Return(p, r) == ReturnWith(p, r, IF r.save THEN Saved(r.data) ELSE file)

\* if err := ipam.store.LoadData(); err != nil { return nil, err }
LoadDataFailed(p, e) == [ip |-> NilIP, err |-> e, data |-> data[p], save |-> FALSE]

\* Store.LoadData: os.ReadFile and json.Unmarshal of an existing file; the
\* operation returns the error of Unmarshal
LoadData(p) ==
    /\ pc[p] = "load"
    /\ IF file.exists /\ ~UnmarshalOk(file)
       THEN Return(p, LoadDataFailed(p, ErrUnmarshal))
       ELSE /\ IF file.exists
               THEN /\ data' = [data EXCEPT ![p] = Loaded(file)]
                    /\ pc' = [pc EXCEPT ![p] = "op"]
               ELSE /\ data' = data
                    /\ pc' = [pc EXCEPT ![p] = "create"]
            /\ UNCHANGED <<hostBits, file, mutex, cmd, id, closed>>
            /\ UNCHANGED reconVars
            /\ UNCHANGED histVars
            /\ UNCHANGED netVars

\* IPAM.AllocateIP after LoadData
AllocateIP(p) ==
    /\ pc[p] = "op"
    /\ cmd[p] = ADD
    /\ \E r \in AllocateIPResults(data[p], id[p]) :
           /\ r.err # ErrDiverge        \* a loop that does not end returns nothing
           /\ Return(p, r)

\* IPAM.ReleaseIP after LoadData
ReleaseIP(p) ==
    /\ pc[p] = "op"
    /\ cmd[p] = DEL
    /\ \E r \in ReleaseIPResults(data[p], id[p]) : Return(p, r)

\* IPAM.CheckIP after LoadData
CheckIP(p) ==
    /\ pc[p] = "op"
    /\ cmd[p] = CHECK
    /\ \E r \in CheckIPResults(data[p], id[p]) : Return(p, r)

Next ==
    \E p \in Procs :
        \/ \E c \in Cmds, i \in Containers : setupIPAM(p, c, i)
        \/ Lock(p)
        \/ LoadData(p)
        \/ LoadDataCreate(p)
        \/ AllocateIP(p)
        \/ ReleaseIP(p)
        \/ CheckIP(p)

Spec == Init /\ [][Next]_vars

\* The runs in which the commands come one after another: a command starts
\* only when no other is running.
NextSerial ==
    \E p \in Procs :
        \/ \E c \in Cmds, i \in Containers : Quiescent /\ setupIPAM(p, c, i)
        \/ Lock(p)
        \/ LoadData(p)
        \/ LoadDataCreate(p)
        \/ AllocateIP(p)
        \/ ReleaseIP(p)
        \/ CheckIP(p)

SerialSpec == Init /\ [][NextSerial]_vars

\* ------------------------------------------------------------------ faults
\* Store.LoadData when ReadFile found no file, step by step.  os.Create:
\* the data file exists and is empty.
LoadDataOsCreate(p) ==
    /\ pc[p] = "create"
    /\ file' = CorruptFile
    /\ pc' = [pc EXCEPT ![p] = "write"]
    /\ UNCHANGED <<hostBits, mutex, cmd, id, closed, data>>
    /\ UNCHANGED reconVars
    /\ UNCHANGED histVars
    /\ UNCHANGED netVars

\* file.Write([]byte("{}")), then s.data = data with the map made
LoadDataWrite(p) ==
    /\ pc[p] = "write"
    /\ file' = Saved(EmptyData)
    /\ data' = [data EXCEPT ![p] = EmptyData]
    /\ pc' = [pc EXCEPT ![p] = "op"]
    /\ UNCHANGED <<hostBits, mutex, cmd, id, closed>>
    /\ UNCHANGED reconVars
    /\ UNCHANGED histVars
    /\ UNCHANGED netVars

\* The process dies with the data file left as f: nothing is returned, and
\* the kernel closes its descriptors, which drops a flock it holds.  A
\* Release whose Save was complete took effect although it did not return.
Exit(p, f) ==
    /\ file' = f
    /\ mutex' = IF mutex = p THEN None ELSE mutex
    /\ pc' = [pc EXCEPT ![p] = "idle"]
    /\ cmd' = [cmd EXCEPT ![p] = ADD]
    /\ id' = [id EXCEPT ![p] = None]
    /\ closed' = [closed EXCEPT ![p] = FALSE]
    /\ data' = [data EXCEPT ![p] = EmptyData]
    /\ seen' = [seen EXCEPT ![p] = NilIP]
    /\ held' = IF cmd[p] = DEL /\ f # file /\ f.valid
               THEN [held EXCEPT ![id[p]] = NilIP]
               ELSE held
    /\ tracked' = FALSE         \* a command that did not return is not in hist
    /\ hist' = << >>
    /\ UNCHANGED hostBits
    /\ UNCHANGED reconVars
    /\ UNCHANGED netVars

\* a crash between two steps of the command: before or after Lock, between
\* os.Create and the write of "{}", between the change of s.data and Save
Crash(p) ==
    /\ Active(p)
    /\ Exit(p, file)

\* a crash inside os.WriteFile of Store.Save: the write was cut, or it was
\* complete and the command died before it returned
CrashInSave(p) ==
    /\ pc[p] = "op"
    /\ \E r \in Results(cmd[p], data[p], id[p]) :
           /\ r.save
           /\ \E f \in {Torn(r.data), Saved(r.data)} : Exit(p, f)

\* What the operation of command c returns when the Save of outcome r
\* fails.  AllocateIP: err := ipam.store.Add(nextIP, id, ifName);
\* return nextIP, err.  ReleaseIP: return ipam.store.Del(id).
SaveFailed(c, r) ==
    [ip |-> IF c = ADD THEN r.ip ELSE NilIP, err |-> ErrWrite,
     data |-> r.data, save |-> FALSE]

\* os.WriteFile of Store.Save returns an error (no space, no permission):
\* the file is as before or holds a cut write
SaveFails(p) ==
    /\ pc[p] = "op"
    /\ \E r \in Results(cmd[p], data[p], id[p]) :
           /\ r.save
           /\ \E f \in {file, Torn(r.data)} :
                  ReturnWith(p, SaveFailed(cmd[p], r), f)

\* The commands one after another, with crashes and failing writes.
NextFault ==
    \E p \in Procs :
        \/ \E c \in Cmds, i \in Containers : Quiescent /\ setupIPAM(p, c, i)
        \/ Lock(p)
        \/ LoadData(p)
        \/ LoadDataOsCreate(p)
        \/ LoadDataWrite(p)
        \/ AllocateIP(p)
        \/ ReleaseIP(p)
        \/ CheckIP(p)
        \/ Crash(p)
        \/ CrashInSave(p)
        \/ SaveFails(p)

FaultSpec == Init /\ [][NextFault]_vars

\* ------------------------------------------------------------------ lock
\* NewStore and NewIPAM as setupIPAM calls them, without the deferred
\* s.Close(): the operation that follows runs on a Store whose FileMutex is
\* open, so its Lock() takes the flock and blocks while another holds it.
NewStoreNewIPAM(p, c, i) ==
    /\ pc[p] = "idle"
    /\ NewIPAMOk
    /\ pc' = [pc EXCEPT ![p] = "lock"]
    /\ cmd' = [cmd EXCEPT ![p] = c]
    /\ id' = [id EXCEPT ![p] = i]
    /\ closed' = [closed EXCEPT ![p] = FALSE]
    /\ data' = [data EXCEPT ![p] = EmptyData]
    /\ seen' = [seen EXCEPT ![p] = held[i]]
    /\ tracked' = FALSE         \* hist is the history of the commands only
    /\ hist' = << >>
    /\ UNCHANGED <<hostBits, file, mutex, held>>
    /\ UNCHANGED reconVars
    /\ UNCHANGED netVars

\* the return of the operation of p, on whichever path
OpReturns(p) ==
    \/ AllocateIP(p)
    \/ ReleaseIP(p)
    \/ CheckIP(p)
    \/ SaveFails(p)

\* Operations on open Stores, at the same time, with writes that can fail
\* and no process that dies.
NextLock ==
    \E p \in Procs :
        \/ \E c \in Cmds, i \in Containers : NewStoreNewIPAM(p, c, i)
        \/ Lock(p)
        \/ LoadData(p)
        \/ LoadDataCreate(p)
        \/ OpReturns(p)

\* the steps of p between Lock() and its return
InsideSteps(p) ==
    \/ LoadData(p)
    \/ LoadDataCreate(p)
    \/ OpReturns(p)

\* A fair lock (a waiting Lock() that can be granted again and again is
\* granted), and a process that is past Lock() goes on to its return.
LockFairness ==
    \A p \in Procs :
        /\ SF_vars(Lock(p))
        /\ WF_vars(InsideSteps(p))

LockSpec == Init /\ [][NextLock]_vars /\ LockFairness

\* ------------------------------------------------------------------ commands
\* a command that goes on to its network part whatever the IPAM call returned
cmdGoesOnAnyway(p, r, f) ==
    /\ OpEnd(p, r, f)
    /\ pc' = [pc EXCEPT ![p] = "net"]
    /\ cmd' = cmd
    /\ id' = id
    /\ podIP' = [podIP EXCEPT ![p] = r.ip]
    /\ veth' = veth

\* The IPAM call of cmdAdd / cmdDel / cmdCheck returns r, the data file left
\* as f.  `if err != nil { return err }`: with an error the command ends;
\* without one it goes on to the network part with the address it got.
cmdGoesOn(p, r, f) ==
    /\ OpEnd(p, r, f)
    /\ IF r.err # NoErr
       THEN /\ pc' = [pc EXCEPT ![p] = "idle"]
            /\ cmd' = [cmd EXCEPT ![p] = ADD]
            /\ id' = [id EXCEPT ![p] = None]
            /\ podIP' = [podIP EXCEPT ![p] = NilIP]
       ELSE /\ pc' = [pc EXCEPT ![p] = "net"]
            /\ cmd' = cmd
            /\ id' = id
            /\ podIP' = [podIP EXCEPT ![p] = r.ip]
    /\ veth' = veth

\* im.AllocateIP / im.ReleaseIP / im.CheckIP return to the command
cmdOpReturns(p) ==
    /\ pc[p] = "op"
    /\ \E r \in Results(cmd[p], data[p], id[p]) :
           /\ r.err # ErrDiverge
           /\ cmdGoesOn(p, r, IF r.save THEN Saved(r.data) ELSE file)

\* the same when the Save of the operation fails
cmdOpSaveFails(p) ==
    /\ pc[p] = "op"
    /\ \E r \in Results(cmd[p], data[p], id[p]) :
           /\ r.save
           /\ \E f \in {file, Torn(r.data)} :
                  cmdGoesOn(p, SaveFailed(cmd[p], r), f)

\* the command returns; nothing in it touches the store after the IPAM call
cmdEnds(p) ==
    /\ pc' = [pc EXCEPT ![p] = "idle"]
    /\ cmd' = [cmd EXCEPT ![p] = ADD]
    /\ id' = [id EXCEPT ![p] = None]
    /\ podIP' = [podIP EXCEPT ![p] = NilIP]
    /\ UNCHANGED <<hostBits, file, mutex, closed, data>>
    /\ UNCHANGED reconVars
    /\ UNCHANGED histVars

\* cmdAdd after AllocateIP: CreateBridge, ns.GetNS, SetupVeth with podIP and
\* PrintResult.  ok: none of them returned an error; with an error the
\* command returns it and the record of the address stays where it is.
cmdAddNet(p, ok) ==
    /\ pc[p] = "net"
    /\ cmd[p] = ADD
    /\ veth' = IF ok THEN [veth EXCEPT ![id[p]] = podIP[p]] ELSE veth
    /\ cmdEnds(p)

\* cmdDel after ReleaseIP: ns.GetNS and DelVeth
cmdDelNet(p, ok) ==
    /\ pc[p] = "net"
    /\ cmd[p] = DEL
    /\ veth' = IF ok THEN [veth EXCEPT ![id[p]] = NilIP] ELSE veth
    /\ cmdEnds(p)

\* cmdCheck after CheckIP: ns.GetNS and CheckVeth
cmdCheckNet(p) ==
    /\ pc[p] = "net"
    /\ cmd[p] = CHECK
    /\ veth' = veth
    /\ cmdEnds(p)

\* The whole commands, one after another, with writes that can fail.
NextCmd ==
    \E p \in Procs :
        \/ \E c \in Cmds, i \in Containers : Quiescent /\ setupIPAM(p, c, i)
        \/ Lock(p)
        \/ LoadData(p)
        \/ LoadDataCreate(p)
        \/ cmdOpReturns(p)
        \/ cmdOpSaveFails(p)
        \/ \E ok \in BOOLEAN : cmdAddNet(p, ok)
        \/ \E ok \in BOOLEAN : cmdDelNet(p, ok)
        \/ cmdCheckNet(p)

CmdSpec == Init /\ [][NextCmd]_vars

\* ------------------------------------------------------------------ subnet
\* The daemon (newReconciler) writes the PodCIDR of the node into
\* subnets.json when it starts; every command reads its subnet from there.
\* A restart with another PodCIDR changes the subnet under the store.
StoreSubnetConfig(h) ==
    /\ Quiescent
    /\ h # hostBits
    /\ hostBits' = h
    /\ UNCHANGED <<file, mutex, pc, cmd, id, closed, data>>
    /\ UNCHANGED reconVars
    /\ UNCHANGED histVars
    /\ UNCHANGED netVars

NextReconf ==
    \/ NextSerial
    \/ \E h \in HostBitsSet : StoreSubnetConfig(h)

ReconfSpec == Init /\ [][NextReconf]_vars

\* ------------------------------------------------------------------ daemon
\* newReconciler: r.routes starts as the routes of the host link whose
\* destination is inside the cluster CIDR and is not the PodCIDR of this
\* node, whatever gateway they have.
newReconciler ==
    /\ nodes = FirstNodes
    /\ \E D \in SUBSET (CIDRs \ {SelfCIDR}) :
           \E g \in [D -> NodeIPs] :
               routes = [c \in D |-> Route(c, g[c])]
    /\ kernel = routes
    /\ rpc = "idle"
    /\ rlist = << >>
    /\ desired = NoRoutes
    /\ rres = "none"
    /\ kop = NoOp

DaemonInit ==
    /\ CommandsInit
    /\ hostBits = MaxHostBits
    /\ newReconciler

\* r.client.List in the order of the node names
NodeList == [i \in 1..(NumOthers + 1) |-> i - 1]

\* A Node object of the cluster changes: n gets PodCIDR c and internal IP i.
\* The node IPAM of the cluster gives no PodCIDR to two nodes.  A Reconcile
\* works on the NodeList it listed, so a change shows in the next one.
NodeUpdate(n, c, i) ==
    /\ rpc = "idle"
    /\ n # Self
    /\ nodes[n] # [cidr |-> c, ip |-> i]
    /\ c # NoCIDR => \A m \in NodeNames \ {n} : nodes[m].cidr # c
    /\ nodes' = [nodes EXCEPT ![n] = [cidr |-> c, ip |-> i]]
    /\ rres' = "none"
    /\ kop' = NoOp
    /\ UNCHANGED <<routes, kernel, rpc, rlist, desired>>
    /\ UNCHANGED cniVars

\* Reconcile up to the loop: lists the nodes, makes the local map routes
ReconcileList ==
    /\ rpc = "idle"
    /\ rpc' = "run"
    /\ rlist' = NodeList
    /\ desired' = NoRoutes
    /\ rres' = "none"
    /\ kop' = NoOp
    /\ UNCHANGED <<nodes, routes, kernel>>
    /\ UNCHANGED cniVars

\* Reconcile returns err in the middle of a loop
ReconcileFails ==
    /\ rpc' = "idle"
    /\ rlist' = << >>
    /\ rres' = "err"
    /\ UNCHANGED <<nodes, routes, kernel>>

\* r.addRoute / r.replaceRoute: netlink.RouteAdd finds no route to the
\* destination in the kernel or fails, netlink.RouteReplace takes any; the
\* route is tracked after the kernel took it.
addRoute(route, ok) ==
    /\ ok => route.Dst \notin DOMAIN kernel
    /\ kop' = KernelOp("add", route.Dst, ok)
    /\ IF ok
       THEN /\ kernel' = RoutePut(kernel, route)
            /\ routes' = RoutePut(routes, route)
            /\ rlist' = Tail(rlist)
            /\ UNCHANGED <<nodes, rpc, rres>>
       ELSE ReconcileFails

replaceRoute(route, ok) ==
    /\ kop' = KernelOp("replace", route.Dst, ok)
    /\ IF ok
       THEN /\ kernel' = RoutePut(kernel, route)
            /\ routes' = RoutePut(routes, route)
            /\ rlist' = Tail(rlist)
            /\ UNCHANGED <<nodes, rpc, rres>>
       ELSE ReconcileFails

\* r.delRoute: netlink.RouteDel needs the route in the kernel; the route is
\* dropped from r.routes after the kernel dropped it.
delRoute(route, ok) ==
    /\ ok => route.Dst \in DOMAIN kernel
    /\ kop' = KernelOp("del", route.Dst, ok)
    /\ IF ok
       THEN /\ kernel' = RouteDelete(kernel, route.Dst)
            /\ routes' = RouteDelete(routes, route.Dst)
            /\ UNCHANGED <<nodes, rpc, rlist, rres>>
       ELSE ReconcileFails

\* one turn of the loop over nodes.Items
ReconcileNode(ok) ==
    /\ rpc = "run"
    /\ rlist # << >>
    /\ LET node == nodes[Head(rlist)]
           route == Route(node.cidr, node.ip)
       IN  IF Head(rlist) = Self \/ node.cidr = NoCIDR \/ node.ip = NoIP
           THEN /\ ok
                /\ rlist' = Tail(rlist)
                /\ kop' = NoOp
                /\ UNCHANGED <<nodes, routes, kernel, rpc, desired, rres>>
           ELSE /\ desired' = RoutePut(desired, route)
                /\ IF node.cidr \in DOMAIN routes
                   THEN IF isRouteEqual(routes[node.cidr], route)
                        THEN /\ ok
                             /\ rlist' = Tail(rlist)
                             /\ kop' = NoOp
                             /\ UNCHANGED <<nodes, routes, kernel, rpc, rres>>
                        ELSE replaceRoute(route, ok)
                   ELSE addRoute(route, ok)
    /\ UNCHANGED cniVars

\* one turn of the loop over r.routes, in the order the map gives
ReconcileStale(c, ok) ==
    /\ rpc = "run"
    /\ rlist = << >>
    /\ c \in DOMAIN routes
    /\ c \notin DOMAIN desired
    /\ delRoute(routes[c], ok)
    /\ UNCHANGED desired
    /\ UNCHANGED cniVars

\* return result, nil: no tracked route is left that is not in routes
ReconcileReturns ==
    /\ rpc = "run"
    /\ rlist = << >>
    /\ DOMAIN routes \subseteq DOMAIN desired
    /\ rpc' = "idle"
    /\ rres' = "ok"
    /\ kop' = NoOp
    /\ UNCHANGED <<nodes, routes, kernel, rlist, desired>>
    /\ UNCHANGED cniVars

NextDaemon ==
    \/ \E n \in NodeNames, c \in CIDRs \cup {NoCIDR}, i \in NodeIPs \cup {NoIP} :
          NodeUpdate(n, c, i)
    \/ ReconcileList
    \/ \E ok \in BOOLEAN : ReconcileNode(ok)
    \/ \E c \in CIDRs, ok \in BOOLEAN : ReconcileStale(c, ok)
    \/ ReconcileReturns

DaemonSpec == DaemonInit /\ [][NextDaemon]_vars

\* ------------------------------------------------------------------ claims
\* the addresses after the gateway up to the last address of the block
Allocatable == {ip \in 0..(Pow2(hostBits) - 1) : ip > Gateway}
NumAllocatable == Cardinality(Allocatable)

\* the containers that have a record in d
Holders(d) == {d.IPs[k].ContainerID : k \in DOMAIN d.IPs}

\* c has the record of address ip in the store f
HasRecord(f, ip, c) ==
    /\ IPString(ip) \in DOMAIN f.IPs
    /\ f.IPs[IPString(ip)].ContainerID = c

\* C1 (uniqueness): no address is held by two different containers at the
\* same time: an address Allocate returned to c, with no Release of c since,
\* is not the address Allocate returned to another container d that was not
\* released since either.
C1_Uniqueness ==
    \A c \in Containers, d \in Containers :
        (c # d /\ held[c] # NilIP) => held[c] # held[d]

\* C2 (mutual exclusion in command runs): a process that is between Lock()
\* and the deferred Unlock() of AllocateIP / ReleaseIP / CheckIP holds the
\* flock of the subnet, so no two processes are inside that span together.
C2_LockHeldInSpan ==
    /\ \A p \in Procs : InCritical(p) => mutex = p
    /\ \A p \in Procs, q \in Procs : (InCritical(p) /\ InCritical(q)) => p = q

\* C3 (concurrent safety): processes that run Allocate at the same time for
\* different containers that have no address yet, in a subnet with room for
\* all of them, each get an address, and get different addresses (so that no
\* record overwrites another).
C3_ConcurrentAllocate ==
    \A p \in Procs, q \in Procs :
        ( /\ p # q
          /\ pc[p] = "op" /\ cmd[p] = ADD
          /\ pc[q] = "op" /\ cmd[q] = ADD
          /\ id[p] # id[q]
          /\ {id[p], id[q]} \cap (Holders(data[p]) \cup Holders(data[q])) = {}
          /\ Cardinality(Holders(data[p]) \cup Holders(data[q])) + 2 <= NumAllocatable )
        => \A rp \in AllocateIPResults(data[p], id[p]),
              rq \in AllocateIPResults(data[q], id[q]) :
                  /\ rp.err = NoErr
                  /\ rq.err = NoErr
                  /\ rp.ip # rq.ip

\* C4 (idempotence): Allocate for a container that held an address when the
\* command started, and was not released since, returns that address, makes
\* no record and leaves the store (records and cursor) as it is.
C4_IdempotentAllocate ==
    \A p \in Procs :
        (pc[p] = "op" /\ cmd[p] = ADD /\ seen[p] # NilIP)
        => \A r \in AllocateIPResults(data[p], id[p]) :
               /\ r.ip = seen[p]
               /\ r.err = NoErr
               /\ ~r.save
               /\ r.data = data[p]

\* the first k commands of the history are Allocates for k different containers
DistinctAdds(k) ==
    \A j \in 1..k :
        /\ hist[j].cmd = ADD
        /\ \A i \in 1..(j - 1) : hist[i].id # hist[j].id

\* the store after the first n commands of the history, all of them
\* successful Allocates
RecordsOfFirst(n) ==
    [k \in {IPString(hist[j].ip) : j \in 1..n} |->
        NetInfo(hist[CHOOSE j \in 1..n : IPString(hist[j].ip) = k].id, IfNameEth0)]

C6_ExampleSecondFails ==
    (tracked /\ hostBits = 2) =>
        /\ (Len(hist) >= 1 /\ hist[1].cmd = ADD /\ hist[1].id = 1)
           => (hist[1].ip = 2 /\ hist[1].err = NoErr)
        /\ (Len(hist) >= 2 /\ hist[1].cmd = ADD /\ hist[1].id = 1
              /\ hist[2].cmd = ADD /\ hist[2].id = 2)
           => (hist[2].err \in ExhaustionErrs /\ hist[2].ip = NilIP)

\* C7 (the /30 example, steps 3 and 4): after Allocate for container 1
\* returned address 2 and Release of container 1 returned, Allocate for
\* container 2 returns address 2 again.
C7_ExampleFreedIsNext ==
    (tracked /\ hostBits = 2 /\ Len(hist) >= 3
       /\ hist[1].cmd = ADD /\ hist[1].id = 1 /\ hist[1].ip = 2
       /\ hist[2].cmd = DEL /\ hist[2].id = 1 /\ hist[2].err = NoErr
       /\ hist[3].cmd = ADD /\ hist[3].id = 2)
    => (hist[3].ip = 2 /\ hist[3].err = NoErr)

C9_Durability ==
    /\ \A p \in Procs :
           (pc[p] = "op" /\ cmd[p] \in {ADD, CHECK} /\ seen[p] # NilIP)
           => \A r \in Results(cmd[p], data[p], id[p]) :
                  r.ip = seen[p] /\ r.err = NoErr
    /\ \A p \in Procs, c \in Containers :
           (pc[p] = "op" /\ id[p] # c /\ held[c] # NilIP
              /\ HasRecord(file, held[c], c))
           => \A r \in Results(cmd[p], data[p], id[p]) :
                  r.save => HasRecord(r.data, held[c], c)
    /\ \A p \in Procs, c \in Containers :
           (pc[p] = "create" /\ id[p] # c /\ held[c] # NilIP)
           => ~HasRecord(file, held[c], c)

\* C10 (serial equivalence): the operations behave as if they ran one at a
\* time.  In particular an operation that writes the store returns, and
\* leaves in the store, what the same operation returns and leaves when it
\* runs alone on the store as it is persisted at that moment: nothing that
\* another operation wrote after this one loaded is undone by its Save.
C10_SerialEquivalence ==
    \A p \in Procs :
        pc[p] = "op"
        => \A r \in Results(cmd[p], data[p], id[p]) :
               r.save =>
                   \E r2 \in Results(cmd[p], Loaded(file), id[p]) :
                       /\ r2.ip = r.ip
                       /\ r2.err = r.err
                       /\ r2.data = r.data
FirstRunFile(f) == ~f.exists \/ f = Saved(EmptyData)

\* C12 (first-run safety): when there is no data file, LoadData leaves the
\* empty valid document in it and an empty map in s.data; and a command that
\* dies on that path, before the file was ever written (in the middle of the
\* creation in particular), leaves a data file on which a later LoadData
\* succeeds exactly as on a first run.
C12_FirstRunSafe ==
    [][\A p \in Procs :
          /\ (pc[p] = "write" /\ pc'[p] = "op")
             => (file' = Saved(EmptyData) /\ data'[p] = EmptyData)
          /\ (pc[p] \in {"create", "write"} /\ pc'[p] = "idle")
             => FirstRunFile(file')]_vars
\* C13 (corrupt store): when the data file exists and does not parse, the
\* Allocate, Release or Check that loads it ends there: it returns an error
\* and no address, no container gets or loses an address, and the data file
\* is left exactly as it was (not created again, not overwritten).
C13_CorruptStore ==
    [][\A p \in Procs :
          (pc[p] = "load" /\ file.exists /\ ~file.valid /\ pc'[p] # "load")
          => /\ pc'[p] = "idle"
             /\ file' = file
             /\ held' = held
             /\ tracked' =>
                    /\ hist' = Append(hist, hist'[Len(hist')])
                    /\ hist'[Len(hist')].cmd = cmd[p]
                    /\ hist'[Len(hist')].id = id[p]
                    /\ hist'[Len(hist')].err # NoErr
                    /\ hist'[Len(hist')].ip = NilIP]_vars

\* C13 witness: a write that failed left a torn data file, and the command
\* that came next returned the parse error and no address.
C13_Witness ==
    /\ Quiescent /\ tracked
    /\ file = CorruptFile
    /\ Len(hist) >= 2
    /\ hist[Len(hist)].err = ErrUnmarshal
    /\ hist[Len(hist)].ip = NilIP
\* C14 (Release): Release(c) returns success; c holds no address afterwards
\* and has no record in the store; the cursor and the record of every other
\* container are as before, and no record appears; when c had no record the
\* data file is left as it was.
C14_Release ==
    [][\A p \in Procs :
          (pc[p] = "op" /\ cmd[p] = DEL /\ pc'[p] = "idle")
          => /\ held'[id[p]] = NilIP
             /\ tracked' => hist'[Len(hist')].err = NoErr
             /\ KeysOf(file', id[p]) = {}
             /\ file'.Last = file.Last
             /\ DOMAIN file'.IPs \subseteq DOMAIN file.IPs
             /\ \A k \in DOMAIN file.IPs :
                    file.IPs[k].ContainerID # id[p]
                    => (k \in DOMAIN file'.IPs /\ file'.IPs[k] = file.IPs[k])
             /\ KeysOf(file, id[p]) = {} => file' = file]_vars

\* C14 witness: two containers got addresses and the first was released: its
\* record is gone, the record of the second is there and the cursor is still
\* the address of the second.
C14_Witness ==
    /\ Quiescent /\ tracked /\ Len(hist) = 3
    /\ hist[1].cmd = ADD /\ hist[1].err = NoErr
    /\ hist[2].cmd = ADD /\ hist[2].err = NoErr /\ hist[2].id # hist[1].id
    /\ hist[3].cmd = DEL /\ hist[3].id = hist[1].id /\ hist[3].err = NoErr
    /\ ~HasRecord(file, hist[1].ip, hist[1].id)
    /\ HasRecord(file, hist[2].ip, hist[2].id)
    /\ file.Last = IPString(hist[2].ip)
\* C15 (Check): Check(c) returns the address recorded for c in the store
\* when there is one, and the not-found error with no address otherwise; in
\* both cases the data file (records and cursor) is as before.  In
\* particular a Check(c) that comes right after a Release(c) returns the
\* not-found error.
C15_Check ==
    [][\A p \in Procs :
          (pc[p] = "op" /\ cmd[p] = CHECK /\ pc'[p] = "idle")
          => /\ file' = file
             /\ held' = held
             /\ tracked' =>
                    LET e == hist'[Len(hist')] IN
                    /\ e.cmd = CHECK /\ e.id = id[p]
                    /\ IF KeysOf(file, id[p]) # {}
                       THEN e.err = NoErr /\ HasRecord(file, e.ip, id[p])
                       ELSE e.err = ErrNotFound /\ e.ip = NilIP
                    /\ (Len(hist) >= 1 /\ hist[Len(hist)].cmd = DEL
                          /\ hist[Len(hist)].id = id[p])
                       => e.err = ErrNotFound]_vars

\* C15 witness: Allocate(c), Release(c), Check(c) ran in that order and the
\* Check returned the not-found error.
C15_Witness ==
    /\ Quiescent /\ tracked /\ Len(hist) = 3
    /\ hist[1].cmd = ADD /\ hist[1].err = NoErr
    /\ hist[2].cmd = DEL /\ hist[2].id = hist[1].id
    /\ hist[3].cmd = CHECK /\ hist[3].id = hist[1].id
    /\ hist[3].err = ErrNotFound /\ hist[3].ip = NilIP
\* C16 (one address per container): in the data file, and in the data every
\* command works on, a container ID is in at most one record, whatever
\* commands ran and however they overlapped.
C16_OneAddressPerContainer ==
    \A c \in Containers :
        /\ Cardinality(KeysOf(file, c)) <= 1
        /\ \A p \in Procs : Cardinality(KeysOf(data[p], c)) <= 1

\* C16 witness: container c has its record in the data file while another
\* process, which loaded the store before that record was written, is about
\* to allocate for c again.
C16_Witness ==
    \E p \in Procs :
        /\ pc[p] = "op" /\ cmd[p] = ADD
        /\ ~GetIPByIdOk(data[p], id[p])
        /\ KeysOf(file, id[p]) # {}
        /\ held[id[p]] # NilIP
        /\ DOMAIN data[p].IPs # {}
\* C17 (termination of the scan): the scan of an Allocate ends, and it tests
\* no address twice, whatever cursor the data file holds: none, the address
\* of a record, a freed address, the last address of the block, or an
\* address that is stale in another way (not an address of the subnet).
C17_ScanTerminates ==
    \A p \in Procs :
        (pc[p] = "op" /\ cmd[p] = ADD /\ ~GetIPByIdOk(data[p], id[p]))
        => LET t == ScanVisits(data[p], ScanStart(data[p]), ScanStart(data[p]), ScanFuel)
           IN /\ AllocScan(data[p]).err # ErrDiverge
              /\ \A i \in 1..Len(t), j \in 1..Len(t) : i # j => t[i] # t[j]
\* C18 (no result alongside an error): an Allocate that returned an error
\* (the load failed, no address is free, the new record could not be
\* written) returned no address with it.
C18_NoResultWithError ==
    tracked =>
        \A j \in 1..Len(hist) :
            (hist[j].cmd = ADD /\ hist[j].err # NoErr) => hist[j].ip = NilIP
\* the addresses after the gateway that have no record in the store f
FreeIPs(f) == {ip \in Allocatable : IPString(ip) \notin DOMAIN f.IPs}

\* the place of address ip in the circular order that starts just after the
\* cursor of f (just after the gateway without a cursor), goes up to the last
\* address of the block and goes on from the address after the gateway
CircularRank(f, ip) ==
    LET start == IF f.Last = "" THEN Gateway ELSE ParseIP(f.Last)
    IN IF ip > start THEN ip - start ELSE ip - start + Pow2(hostBits)

\* the first free address of f in that order
NextFit(f) ==
    CHOOSE ip \in FreeIPs(f) :
        \A o \in FreeIPs(f) : CircularRank(f, ip) <= CircularRank(f, o)

C20_CursorInvariant ==
    [][/\ file'.Last = "" => (DOMAIN file'.IPs = {} /\ file.Last = "")
       /\ \A p \in Procs :
              (pc[p] = "op" /\ cmd[p] = ADD /\ pc'[p] = "idle"
                 /\ ~GetIPByIdOk(data[p], id[p]) /\ AllocScan(data[p]).add)
              => /\ held'[id[p]] # NilIP
                 /\ file'.Last = IPString(held'[id[p]])
       /\ file'.Last # file.Last
          => \E p \in Procs :
                 /\ pc[p] = "op" /\ cmd[p] = ADD /\ pc'[p] = "idle"
                 /\ ~GetIPByIdOk(data[p], id[p])
                 /\ file'.Last = IPString(held'[id[p]])]_vars
\* ip is an address of the subnet other than the network address and the
\* gateway
InRange(ip) == SubnetContains(ip) /\ ip # NetworkIP /\ ip # Gateway

\* C21 (allocatable range): every address Allocate returned or recorded is
\* an address of the subnet and is neither the network address nor the
\* gateway: the addresses held, the addresses the commands returned, the keys
\* and the cursor of the data file, and the address an Allocate is about to
\* return, after scans that wrap around too.
C21_AllocatableRange ==
    /\ \A c \in Containers : held[c] # NilIP => InRange(held[c])
    /\ \A k \in DOMAIN file.IPs : InRange(ParseIP(k))
    /\ file.Last # "" => InRange(ParseIP(file.Last))
    /\ tracked => \A j \in 1..Len(hist) :
                      hist[j].ip # NilIP => InRange(hist[j].ip)
    /\ \A p \in Procs :
           (pc[p] = "op" /\ cmd[p] = ADD)
           => \A r \in AllocateIPResults(data[p], id[p]) :
                  r.ip # NilIP => InRange(r.ip)

\* C21 witness: in a /30 the scan wrapped: every address after the gateway
\* has a record and the cursor is address 2, the lowest of them, which the
\* last record-creating Allocate reached from the last address of the block
\* by way of the gateway; its container holds it.
C21_Witness ==
    /\ Quiescent /\ hostBits = 2
    /\ \A ip \in Allocatable : Contain(file, ip)
    /\ file.Last = IPString(Gateway + 1)
    /\ \E c \in Containers :
           held[c] = Gateway + 1 /\ HasRecord(file, Gateway + 1, c)
C23_CommandOrdering ==
    [][\A p \in Procs :
          /\ (pc[p] # "net" /\ pc'[p] = "net")
             => /\ pc[p] = "op"
                /\ tracked' => (hist'[Len(hist')].err = NoErr
                                 /\ hist'[Len(hist')].id = id[p])
                /\ cmd[p] = DEL
                   => (KeysOf(file', id[p]) = {} /\ held'[id[p]] = NilIP)
                /\ cmd[p] = ADD
                   => /\ podIP'[p] # NilIP
                      /\ HasRecord(file', podIP'[p], id[p])
                      /\ held'[id[p]] = podIP'[p]
          /\ (pc[p] = "net" /\ pc'[p] = "idle")
             => /\ file' = file
                /\ held' = held
                /\ cmd[p] = ADD => HasRecord(file', podIP[p], id[p])
          /\ (pc[p] = "op" /\ cmd[p] = ADD /\ pc'[p] # "op"
                /\ held[id[p]] # NilIP /\ veth[id[p]] = NilIP
                /\ HasRecord(file, held[id[p]], id[p]))
             => (pc'[p] = "net" /\ podIP'[p] = held[id[p]])
          /\ (pc[p] = "net" /\ cmd[p] = DEL /\ veth' # veth)
             => (KeysOf(file, id[p]) = {} /\ held[id[p]] = NilIP)]_vars

\* C23 witness: an Add of container c got an address and failed in its
\* network part (c has the record and no veth); the Add of c that was tried
\* again is in its network part with the same address.
C23_Witness ==
    \E p \in Procs :
        /\ pc[p] = "net" /\ cmd[p] = ADD
        /\ tracked /\ Len(hist) = 2
        /\ hist[1].cmd = ADD /\ hist[1].id = id[p] /\ hist[1].err = NoErr
        /\ hist[2].cmd = ADD /\ hist[2].id = id[p]
        /\ veth[id[p]] = NilIP
        /\ podIP[p] = hist[1].ip

\* the routes the cluster ns asks of this node: one to the PodCIDR of every
\* other node that has a PodCIDR and an internal IP, through that IP
RoutedNodes(ns) ==
    {n \in NodeNames \ {Self} : ns[n].cidr # NoCIDR /\ ns[n].ip # NoIP}
WantedRoutes(ns) ==
    [c \in {ns[n].cidr : n \in RoutedNodes(ns)} |->
        Route(c, ns[CHOOSE n \in RoutedNodes(ns) : ns[n].cidr = c].ip)]

\* C24 (route reconciliation): when Reconcile has returned without error the
\* tracked route set is exactly one route per other node that has a PodCIDR
\* and a resolvable internal IP, to that PodCIDR through that IP, and nothing
\* else.  On the way a kernel add is made only for a wanted destination that
\* is not tracked, a replace only for a tracked route that differs from the
\* wanted one, a delete only for a tracked destination that is not wanted, a
\* route that is as wanted gets no kernel operation, and the tracked set
\* changes only by the route of a kernel operation that succeeded.
C24_RouteReconciliation ==
    [][ /\ (rpc' = "idle" /\ rres' = "ok") =>
             /\ routes' = WantedRoutes(nodes')
             /\ Cardinality(DOMAIN routes') = Cardinality(RoutedNodes(nodes'))
        /\ kop'.op = "none" => (routes' = routes /\ kernel' = kernel)
        /\ kop'.op = "add" =>
             /\ kop'.cidr \notin DOMAIN routes
             /\ kop'.cidr \in DOMAIN WantedRoutes(nodes)
        /\ kop'.op = "replace" =>
             /\ kop'.cidr \in DOMAIN routes
             /\ kop'.cidr \in DOMAIN WantedRoutes(nodes)
             /\ routes[kop'.cidr] # WantedRoutes(nodes)[kop'.cidr]
        /\ kop'.op = "del" =>
             /\ kop'.cidr \in DOMAIN routes
             /\ kop'.cidr \notin DOMAIN WantedRoutes(nodes)
        /\ (kop'.op \in {"add", "replace"} /\ kop'.ok) =>
             /\ routes' = RoutePut(routes, WantedRoutes(nodes)[kop'.cidr])
             /\ kernel' = RoutePut(kernel, WantedRoutes(nodes)[kop'.cidr])
        /\ (kop'.op = "del" /\ kop'.ok) =>
             /\ routes' = RouteDelete(routes, kop'.cidr)
             /\ kernel' = RouteDelete(kernel, kop'.cidr)
        /\ ~kop'.ok =>
             (routes' = routes /\ kernel' = kernel /\ rres' = "err")
      ]_vars

\* Reconcile returned without error after it added a route, replaced one
\* and deleted one: both other nodes are routed to, one through a gateway
\* that is not the one the daemon found in the kernel.
C24_Witness ==
    /\ rpc = "idle"
    /\ rres = "ok"
    /\ Cardinality(RoutedNodes(nodes)) = NumOthers
    /\ routes = WantedRoutes(nodes)
    /\ kernel = routes
    /\ SelfCIDR \notin DOMAIN routes
    /\ \E c \in DOMAIN routes : routes[c].Gw # SelfIP
====
